---- MODULE Spec2Model ----
(***************************************************************************)
(* Model of scripts/codegen-translations.js: the generator that reads a    *)
(* language file, flattens the keys of its `translation` object into tags  *)
(* and writes a TypeScript declaration of the union of all tags.           *)
(*                                                                         *)
(* Text is modelled by TLA+ strings (sequences of characters): Len is the  *)
(* JavaScript .length, \o is concatenation, SubSeq is a substring.         *)
(* JavaScript values are records tagged by `kind`; an object keeps its     *)
(* members in property enumeration order.                                  *)
(***************************************************************************)
EXTENDS Integers, Sequences, FiniteSets, TLC

VARIABLES
    files,              \* src/languages/: file name -> contents of an input file
    outFile,            \* contents of src/languages/types-generated.d.ts
    pc,                 \* per process: position inside run()
    languageFilename,   \* per process: the module constant of line 20
    languageData,       \* per process: local of run(), line 148
    tagsArray,          \* per process: local of run(), line 151
    declarationString,  \* per process: local of run(), line 155
    error,              \* per process: the exception that ended the run
    runs,               \* number of invocations so far
    outBefore,          \* history: per process, outFile when the run started
    emitted,            \* history: per file name, the texts its finished runs left in outFile
    writeLog,           \* history: who changed outFile, in order
    tagAsArray,         \* argument of generateTypeForTag (tag renderer alone)
    arrayRepr,          \* result of generateArrayRepresentationForTag
    tagType,            \* result of generateTypeForTag
    tagPc               \* the renderings of tagAsArray made so far

vars == <<files, outFile, pc, languageFilename, languageData, tagsArray,
          declarationString, error, runs, outBefore, emitted, writeLog,
          tagAsArray, arrayRepr, tagType, tagPc>>

runVars == <<files, outFile, pc, languageFilename, languageData, tagsArray,
             declarationString, error, runs, outBefore, emitted, writeLog>>

tagVars == <<tagAsArray, arrayRepr, tagType, tagPc>>

-----------------------------------------------------------------------------
(* Bounds of the model.                                                    *)

\* Largest number of keys and array elements in a language document.
MaxNodes == 3

\* Largest number of components of a tag handed to the tag renderer alone.
MaxTagLen == 3

\* Largest number of invocations of the script in one behaviour.
MaxRuns == 3

-----------------------------------------------------------------------------
(* JavaScript values as JSON.parse produces them.                          *)

Undefined == [kind |-> "undefined"]
Null      == [kind |-> "null"]
Num       == [kind |-> "number"]
Bool      == [kind |-> "boolean"]
Str(s)    == [kind |-> "string", text |-> s]
Arr(its)  == [kind |-> "array", items |-> its]
Obj(ms)   == [kind |-> "object", members |-> ms]
Member(k, v) == [key |-> k, val |-> v]

\* The typeof operator: null and arrays are 'object'.
TypeOf(v) ==
    IF v.kind \in {"null", "array", "object"} THEN "object" ELSE v.kind

Digits == <<"0", "1", "2", "3", "4", "5", "6", "7", "8", "9">>

\* ToString of an array index.
RECURSIVE IndexStr(_)
IndexStr(i) ==
    IF i < 10 THEN Digits[i + 1]
    ELSE IndexStr(i \div 10) \o Digits[(i % 10) + 1]

\* The keys `for (let key in v)` visits, in order.  null and undefined are
\* skipped by for-in without an error; a string primitive and an array
\* enumerate their indices; numbers and booleans have no enumerable keys.
ForInKeys(v) ==
    CASE v.kind = "object" -> [i \in 1..Len(v.members) |-> v.members[i].key]
      [] v.kind = "array"  -> [i \in 1..Len(v.items) |-> IndexStr(i - 1)]
      [] v.kind = "string" -> [i \in 1..Len(v.text) |-> IndexStr(i - 1)]
      [] OTHER             -> <<>>

\* Property access v[key] on a value that is neither null nor undefined.
GetProp(v, key) ==
    CASE v.kind = "object" ->
           IF \E i \in 1..Len(v.members) : v.members[i].key = key
           THEN v.members[CHOOSE i \in 1..Len(v.members) : v.members[i].key = key].val
           ELSE Undefined
      [] v.kind = "array" ->
           IF \E i \in 1..Len(v.items) : IndexStr(i - 1) = key
           THEN v.items[CHOOSE i \in 1..Len(v.items) : IndexStr(i - 1) = key]
           ELSE Undefined
      [] v.kind = "string" ->
           IF \E i \in 1..Len(v.text) : IndexStr(i - 1) = key
           THEN LET i == CHOOSE j \in 1..Len(v.text) : IndexStr(j - 1) = key
                IN  Str(SubSeq(v.text, i, i))
           ELSE Undefined
      [] OTHER -> Undefined

-----------------------------------------------------------------------------
(* The key flattener, lines 99-108.                                        *)

RECURSIVE pushNestedKeysAsArrays(_, _, _)

\* A flattener that descends into nested mappings only.
DescendsIntoMappingsOnly(value) == value.kind = "object"

\* Line 104: the test that decides whether the flattener descends.
IsObjectTyped(value) == TypeOf(value) = "object"

\* A loop body that records the key after its children.
pushKeyAfterChildren(keysArray, object, prefixArray, key) ==
    LET keyRepresentation == prefixArray \o <<key>>
        below == IF IsObjectTyped(GetProp(object, key))
                 THEN pushNestedKeysAsArrays(keysArray, GetProp(object, key),
                                             keyRepresentation)
                 ELSE keysArray
    IN  Append(below, keyRepresentation)

\* A loop body that records only the keys it does not descend into.
pushKeyLeavesOnly(keysArray, object, prefixArray, key) ==
    LET keyRepresentation == prefixArray \o <<key>>
    IN  IF IsObjectTyped(GetProp(object, key))
        THEN pushNestedKeysAsArrays(keysArray, GetProp(object, key), keyRepresentation)
        ELSE Append(keysArray, keyRepresentation)

\* Lines 101-106: the body of the loop for one key; the value is the
\* array keysArray after the body has run.
pushKey(keysArray, object, prefixArray, key) ==
    LET keyRepresentation == prefixArray \o <<key>>
        pushed == Append(keysArray, keyRepresentation)
    IN  IF IsObjectTyped(GetProp(object, key))
        THEN pushNestedKeysAsArrays(pushed, GetProp(object, key), keyRepresentation)
        ELSE pushed

\* Line 100: the for-in loop over the remaining keys.
RECURSIVE forIn(_, _, _, _)
forIn(keysArray, object, prefixArray, keys) ==
    IF keys = <<>> THEN keysArray
    ELSE forIn(pushKey(keysArray, object, prefixArray, Head(keys)),
               object, prefixArray, Tail(keys))

pushNestedKeysAsArrays(keysArray, object, prefixArray) ==
    forIn(keysArray, object, prefixArray, ForInKeys(object))

-----------------------------------------------------------------------------
(* The inputs: language documents of at most MaxNodes keys and elements.   *)

Keys == {"a", "b", "a.b"}

Scalars == {Str("Send"), Num, Bool, Null}

RECURSIVE ValuesUpTo(_), MembersUpTo(_), ItemsUpTo(_)

\* Member lists with distinct keys whose subtrees hold at most n nodes.
MembersUpTo(n) ==
    {<<>>} \cup
    UNION { UNION { { <<Member(k, v)>> \o rest :
                        v \in ValuesUpTo(j - 1),
                        rest \in { r \in MembersUpTo(n - j) :
                                     \A i \in 1..Len(r) : r[i].key # k } } :
                    k \in Keys } :
            j \in 1..n }

\* Element lists whose subtrees hold at most n nodes.
ItemsUpTo(n) ==
    {<<>>} \cup
    UNION { { <<v>> \o rest : v \in ValuesUpTo(j - 1), rest \in ItemsUpTo(n - j) } :
            j \in 1..n }

\* Values with at most n keys and elements below them.
ValuesUpTo(n) ==
    Scalars \cup { Obj(ms) : ms \in MembersUpTo(n) }
            \cup { Arr(its) : its \in ItemsUpTo(n) }

-----------------------------------------------------------------------------
(* The tag renderer, lines 21-62.                                          *)

maxLineLength == 80

\* Array.prototype.join.
RECURSIVE Join(_, _)
Join(parts, separator) ==
    IF parts = <<>> THEN ""
    ELSE IF Len(parts) = 1 THEN parts[1]
    ELSE parts[1] \o separator \o Join(Tail(parts), separator)

\* A length test that sends a line of exactly maxLineLength to the
\* multi-line form.
FitsBelowMaxLineLength(oneLineAttempt) == Len(oneLineAttempt) < maxLineLength

\* Line 37.
FitsOnOneLine(oneLineAttempt) == Len(oneLineAttempt) <= maxLineLength

\* A renderer that drops the last component from the array form.
ArrayRepresentationWithoutLast(tag) ==
    "  | [" \o Join([i \in 1..(Len(tag) - 1) |-> "'" \o tag[i] \o "'"], ", ") \o "]"

generateArrayRepresentationForTag(tag) ==
    LET stringRepresentations == [i \in 1..Len(tag) |-> "'" \o tag[i] \o "'"]
        oneLineAttempt == "  | [" \o Join(stringRepresentations, ", ") \o "]"
        multiLineAttempt ==
            "  | [\n      " \o Join(stringRepresentations, ",\n      ") \o "\n    ]"
    IN  IF FitsOnOneLine(oneLineAttempt) THEN oneLineAttempt ELSE multiLineAttempt

generateTypeForTag(tag) ==
    "\n  | '" \o Join(tag, ".") \o "'\n" \o generateArrayRepresentationForTag(tag)

-----------------------------------------------------------------------------
(* The declaration, lines 72-86.                                           *)

\* The grave accent of the header comment.  The lexer of TLA+ does not take
\* a grave accent inside a string, so this one character stands for it.
GraveAccent == "\""

RECURSIVE ConcatAll(_)
ConcatAll(texts) ==
    IF texts = <<>> THEN "" ELSE Head(texts) \o ConcatAll(Tail(texts))

\* languageFilename is a module constant in the source; here it is passed.
generateDeclaration(validTagsAsArrays, filename) ==
    "// This file was automatically generated by running "
        \o GraveAccent \o "yarn codegen-translations" \o GraveAccent \o "\n"
    \o "// using the language file named "
        \o GraveAccent \o filename \o GraveAccent \o ".\n"
    \o "//\n"
    \o "// To regenerate this file, re-execute the "
        \o GraveAccent \o "yarn codegen-translations" \o GraveAccent \o " script.\n"
    \o "\n"
    \o "import { TranslateOptions } from 'i18n-js';\n"
    \o "\n"
    \o "declare module 'i18n-js' {\n"
    \o "  function t(scope: ValidScope, options?: TranslateOptions): string;\n"
    \o "}\n"
    \o "\n"
    \o "type ValidScope ="
    \o ConcatAll([i \in 1..Len(validTagsAsArrays) |->
                    generateTypeForTag(validTagsAsArrays[i])])
    \o ";\n"

-----------------------------------------------------------------------------
(* JSON.parse, line 124.  The text of a file is its syntax tree: members   *)
(* in the order written, a key possibly written twice.                     *)

NoFile    == [kind |-> "nofile"]
Malformed == [kind |-> "malformed"]

\* Keys that are canonical array indices come first in property order.
IsIndexKey(key) == \E i \in 0..99 : IndexStr(i) = key

\* The members of a parsed object: one per key, the value written last,
\* index keys ascending and then the other keys in the order first written.
ParsedMembers(members) ==
    LET Written(key) == \E i \in 1..Len(members) : members[i].key = key
        LastOf(key) ==
            members[CHOOSE i \in 1..Len(members) :
                      /\ members[i].key = key
                      /\ \A j \in (i + 1)..Len(members) : members[j].key # key]
        First(i) == \A j \in 1..(i - 1) : members[j].key # members[i].key
        indexKeys == SelectSeq([i \in 1..100 |-> IndexStr(i - 1)], Written)
        RECURSIVE OtherKeys(_)
        OtherKeys(i) ==
            IF i > Len(members) THEN <<>>
            ELSE (IF First(i) /\ ~IsIndexKey(members[i].key)
                  THEN <<members[i].key>> ELSE <<>>) \o OtherKeys(i + 1)
        keys == indexKeys \o OtherKeys(1)
    IN  [i \in 1..Len(keys) |-> LastOf(keys[i])]

RECURSIVE Revive(_)
Revive(tree) ==
    CASE tree.kind = "object" ->
           LET ms == ParsedMembers(tree.members)
           IN  Obj([i \in 1..Len(ms) |-> Member(ms[i].key, Revive(ms[i].val))])
      [] tree.kind = "array" ->
           Arr([i \in 1..Len(tree.items) |-> Revive(tree.items[i])])
      [] OTHER -> tree

\* A loader that catches a failed read or parse and returns undefined.
loadLanguageJsonSwallowingErrors(contents) ==
    IF contents \in {NoFile, Malformed} THEN [threw |-> "", value |-> Undefined]
    ELSE LET parsed == Revive(contents)
         IN  IF parsed.kind \in {"null", "undefined"}
             THEN [threw |-> "TypeError"]
             ELSE [threw |-> "", value |-> GetProp(parsed, "translation")]

\* Lines 116-125: the value returned, or the exception thrown.
loadLanguageJson(contents) ==
    IF contents = NoFile THEN [threw |-> "ENOENT"]
    ELSE IF contents = Malformed THEN [threw |-> "SyntaxError"]
    ELSE LET parsed == Revive(contents)
         IN  IF parsed.kind \in {"null", "undefined"}
             THEN [threw |-> "TypeError"]
             ELSE [threw |-> "", value |-> GetProp(parsed, "translation")]

-----------------------------------------------------------------------------
(* The output file, lines 133-140.  fs.writeFileSync opens the file with   *)
(* flag 'w', which truncates it, and then writes the text at offset 0;     *)
(* the two are separate system calls.                                      *)

\* An open that leaves the old contents in place.
OpenWithoutTruncating(old) == old

\* open(path, O_WRONLY | O_CREAT | O_TRUNC).
OpenForWriting(old) == ""

\* A write that appends to what the file holds.
WriteAppending(old, contents) == old \o contents

\* write(fd, contents) at offset 0 of a file that holds `old`.
WriteAtStart(old, contents) ==
    contents \o SubSeq(old, Len(contents) + 1, Len(old))

-----------------------------------------------------------------------------
(* The files and arguments the behaviours start from.                      *)

Procs == {1, 2}

DefaultLanguageFilename == "en_US.json"
OtherLanguageFilename == "_other-language.json"
FileNames == {DefaultLanguageFilename, OtherLanguageFilename}

\* process.argv[2]: absent, or the name of another language file.
Argv2 == {Undefined, Str(OtherLanguageFilename)}

\* Line 20.
LanguageFilenameFor(arg) ==
    IF arg \in {Undefined, Null} THEN DefaultLanguageFilename ELSE arg.text

RECURSIVE Repeat(_, _)
Repeat(char, n) == IF n = 0 THEN "" ELSE char \o Repeat(char, n - 1)

\* Two keys k1, k2 for which the one-line form of [k1, k1] is exactly
\* maxLineLength characters long and that of [k1, k2] one more.
LongKey == Repeat("k", (maxLineLength - 12) \div 2)
LongerKey == LongKey \o "k"

ButtonDoc ==
    Obj(<<Member("button", Obj(<<Member("send", Str("Send"))>>)),
          Member("cancel", Str("Cancel"))>>)
EmptyDoc == Obj(<<>>)
RewrittenKeyDoc ==
    Obj(<<Member("b", Str("x")), Member("1", Num),
          Member("b", Obj(<<Member("c", Bool)>>)), Member("0", Null)>>)
DottedKeyDoc ==
    Obj(<<Member("a.b", Str("x")), Member("a", Obj(<<Member("b", Str("y"))>>))>>)
LongKeyDoc ==
    Obj(<<Member(LongKey, Obj(<<Member(LongKey, Str("x")),
                                Member(LongerKey, Str("y"))>>))>>)
ArrayDoc ==
    Obj(<<Member("days", Arr(<<Str("Mon"), Obj(<<Member("short", Str("M"))>>)>>))>>)

Translations ==
    {ButtonDoc, EmptyDoc, RewrittenKeyDoc, DottedKeyDoc, LongKeyDoc, ArrayDoc,
     Str("Hi"), Null, Num, Arr(<<Str("x")>>)}

\* What the file en_US.json may hold.
DefaultContents ==
    {NoFile, Malformed, Null, Num, Str("translation"), Arr(<<ButtonDoc>>),
     Obj(<<>>), Obj(<<Member("cancel", Str("Cancel"))>>),
     Obj(<<Member("translation", ButtonDoc), Member("translation", EmptyDoc)>>)}
    \cup { Obj(<<Member("translation", t)>>) : t \in Translations }

\* What the file _other-language.json may hold.
OtherContents ==
    {NoFile, Obj(<<Member("translations", ButtonDoc)>>),
     Obj(<<Member("translation", LongKeyDoc)>>)}

\* A declaration left in the output file by an earlier version of the
\* language file.
StaleText ==
    generateDeclaration(<<<<LongKey>>, <<LongKey, LongerKey>>, <<LongKey, LongerKey, "old">>,
                          <<"older">>, <<"oldest">>>>, DefaultLanguageFilename)

-----------------------------------------------------------------------------
(* The run, lines 146-159, one action per step.                            *)

Ended(p) == pc[p] \in {"ready", "done", "failed"}

\* `yarn codegen-translations [name]`: a new process starts.
Invoke(p) ==
    /\ Ended(p)
    /\ runs < MaxRuns
    /\ \E arg \in Argv2 :
         languageFilename' = [languageFilename EXCEPT ![p] = LanguageFilenameFor(arg)]
    /\ pc' = [pc EXCEPT ![p] = "start"]
    /\ runs' = runs + 1
    /\ error' = [error EXCEPT ![p] = ""]
    /\ languageData' = [languageData EXCEPT ![p] = Undefined]
    /\ tagsArray' = [tagsArray EXCEPT ![p] = <<>>]
    /\ declarationString' = [declarationString EXCEPT ![p] = ""]
    /\ outBefore' = [outBefore EXCEPT ![p] = outFile]
    /\ UNCHANGED <<files, outFile, emitted, writeLog>>
    /\ UNCHANGED tagVars

\* Line 148.
Load(p) ==
    /\ pc[p] = "start"
    /\ LET result == loadLanguageJson(files[languageFilename[p]])
       IN  IF result.threw # ""
           THEN /\ pc' = [pc EXCEPT ![p] = "failed"]
                /\ error' = [error EXCEPT ![p] = result.threw]
                /\ UNCHANGED languageData
           ELSE /\ pc' = [pc EXCEPT ![p] = "loaded"]
                /\ languageData' = [languageData EXCEPT ![p] = result.value]
                /\ UNCHANGED error
    /\ UNCHANGED <<files, outFile, languageFilename, tagsArray, declarationString,
                   runs, outBefore, emitted, writeLog>>
    /\ UNCHANGED tagVars

\* Lines 151-152.
Flatten(p) ==
    /\ pc[p] = "loaded"
    /\ tagsArray' = [tagsArray EXCEPT
                       ![p] = pushNestedKeysAsArrays(<<>>, languageData[p], <<>>)]
    /\ pc' = [pc EXCEPT ![p] = "flattened"]
    /\ UNCHANGED <<files, outFile, languageFilename, languageData, declarationString,
                   error, runs, outBefore, emitted, writeLog>>
    /\ UNCHANGED tagVars

\* Line 155.
Generate(p) ==
    /\ pc[p] = "flattened"
    /\ declarationString' =
         [declarationString EXCEPT
            ![p] = generateDeclaration(tagsArray[p], languageFilename[p])]
    /\ pc' = [pc EXCEPT ![p] = "generated"]
    /\ UNCHANGED <<files, outFile, languageFilename, languageData, tagsArray,
                   error, runs, outBefore, emitted, writeLog>>
    /\ UNCHANGED tagVars

\* Line 158, first half: writeFileSync opens the output file.
OpenOutput(p) ==
    /\ pc[p] = "generated"
    /\ outFile' = OpenForWriting(outFile)
    /\ pc' = [pc EXCEPT ![p] = "opened"]
    /\ UNCHANGED <<files, languageFilename, languageData, tagsArray, declarationString,
                   error, runs, outBefore, emitted, writeLog>>
    /\ UNCHANGED tagVars

\* Line 158, second half: writeFileSync writes the text and returns.
WriteOutput(p) ==
    /\ pc[p] = "opened"
    /\ outFile' = WriteAtStart(outFile, declarationString[p])
    /\ pc' = [pc EXCEPT ![p] = "done"]
    /\ emitted' = [emitted EXCEPT ![languageFilename[p]] = Append(@, outFile')]
    /\ writeLog' = Append(writeLog, [who |-> p, name |-> languageFilename[p],
                                   text |-> declarationString[p]])
    /\ UNCHANGED <<files, languageFilename, languageData, tagsArray, declarationString,
                   error, runs, outBefore>>
    /\ UNCHANGED tagVars

Next ==
    \E p \in Procs :
        \/ Invoke(p)
        \/ Load(p)
        \/ Flatten(p)
        \/ Generate(p)
        \/ OpenOutput(p)
        \/ WriteOutput(p)

TagIdle ==
    /\ tagAsArray = <<>>
    /\ arrayRepr = ""
    /\ tagType = ""
    /\ tagPc = {"off"}

RunIdle(position) ==
    /\ pc = position
    /\ languageFilename = [p \in Procs |-> DefaultLanguageFilename]
    /\ tagsArray = [p \in Procs |-> <<>>]
    /\ declarationString = [p \in Procs |-> ""]
    /\ error = [p \in Procs |-> ""]
    /\ runs = 0
    /\ outBefore = [p \in Procs |-> outFile]
    /\ emitted = [n \in FileNames |-> <<>>]
    /\ writeLog = <<>>

\* One process at a time: the script is run, and possibly run again.
Init ==
    /\ files \in { f \in [FileNames -> DefaultContents \cup OtherContents] :
                     /\ f[DefaultLanguageFilename] \in DefaultContents
                     /\ f[OtherLanguageFilename] \in OtherContents }
    /\ outFile \in {"", StaleText}
    /\ languageData = [p \in Procs |-> Undefined]
    /\ RunIdle([p \in Procs |-> IF p = 1 THEN "ready" ELSE "off"])
    /\ TagIdle

Spec == Init /\ [][Next]_vars

-----------------------------------------------------------------------------
(* The key flattener alone: it is handed every value that                  *)
(* JSON.parse(..)['translation'] can be, up to MaxNodes keys and elements. *)

InitFlatten ==
    /\ files = [n \in FileNames |-> NoFile]
    /\ outFile = ""
    /\ languageData \in
         { [p \in Procs |-> IF p = 1 THEN v ELSE Undefined] :
             v \in ValuesUpTo(MaxNodes) \cup {Undefined} }
    /\ RunIdle([p \in Procs |-> IF p = 1 THEN "loaded" ELSE "off"])
    /\ TagIdle

NextFlatten == \E p \in Procs : Flatten(p)

SpecFlatten == InitFlatten /\ [][NextFlatten]_vars

-----------------------------------------------------------------------------
(* The tag renderer alone: it is handed every tag of at most MaxTagLen     *)
(* components.                                                             *)

TagKeys == {"a", "b", "a.b", LongKey, LongerKey}

TagsUpTo(n) == UNION { [1..m -> TagKeys] : m \in 1..n }

InitTag ==
    /\ files = [n \in FileNames |-> NoFile]
    /\ outFile = ""
    /\ languageData = [p \in Procs |-> Undefined]
    /\ RunIdle([p \in Procs |-> "off"])
    /\ tagAsArray \in TagsUpTo(MaxTagLen)
    /\ arrayRepr = ""
    /\ tagType = ""
    /\ tagPc = {}

\* Lines 33-45 applied to the tag.
RenderArray ==
    /\ "off" \notin tagPc
    /\ "array" \notin tagPc
    /\ arrayRepr' = generateArrayRepresentationForTag(tagAsArray)
    /\ tagPc' = tagPc \cup {"array"}
    /\ UNCHANGED <<tagAsArray, tagType>>
    /\ UNCHANGED runVars

\* Lines 58-62 applied to the tag.
RenderType ==
    /\ "off" \notin tagPc
    /\ "type" \notin tagPc
    /\ tagType' = generateTypeForTag(tagAsArray)
    /\ tagPc' = tagPc \cup {"type"}
    /\ UNCHANGED <<tagAsArray, arrayRepr>>
    /\ UNCHANGED runVars

NextTag == RenderArray \/ RenderType

SpecTag == InitTag /\ [][NextTag]_vars

-----------------------------------------------------------------------------
(* Two processes at once, both writing types-generated.d.ts.               *)

InitConcurrent ==
    /\ files \in { f \in [FileNames -> DefaultContents \cup OtherContents] :
                     /\ f[DefaultLanguageFilename] \in
                          {Obj(<<Member("translation", ButtonDoc)>>),
                           Obj(<<Member("translation", EmptyDoc)>>), Malformed}
                     /\ f[OtherLanguageFilename] \in
                          {NoFile, Obj(<<Member("translation", LongKeyDoc)>>)} }
    /\ outFile \in {"", StaleText}
    /\ languageData = [p \in Procs |-> Undefined]
    /\ RunIdle([p \in Procs |-> "ready"])
    /\ TagIdle

SpecConcurrent == InitConcurrent /\ [][Next]_vars

-----------------------------------------------------------------------------
(* Vocabulary of the properties.                                           *)

IsProperPrefix(s, t) == Len(s) < Len(t) /\ SubSeq(t, 1, Len(s)) = s

Occurrences(list, x) == Cardinality({i \in 1..Len(list) : list[i] = x})

\* The key paths of a document: the keys of a mapping and the indices of
\* an array, each alone and followed by the key paths of its value.
RECURSIVE KeyPaths(_)
KeyPaths(v) ==
    CASE v.kind = "object" ->
           UNION { {<<v.members[i].key>>} \cup
                   { <<v.members[i].key>> \o q : q \in KeyPaths(v.members[i].val) } :
                   i \in 1..Len(v.members) }
      [] v.kind = "array" ->
           UNION { {<<IndexStr(i - 1)>>} \cup
                   { <<IndexStr(i - 1)>> \o q : q \in KeyPaths(v.items[i]) } :
                   i \in 1..Len(v.items) }
      [] OTHER -> {}

\* The value a path leads to.
RECURSIVE ValueAt(_, _)
ValueAt(v, path) ==
    IF path = <<>> THEN v ELSE ValueAt(GetProp(v, Head(path)), Tail(path))

Flattened(p) == pc[p] = "flattened"

\* C1: for a language document D (a mapping), the tag list holds every key
\* path of D, at every nesting level, exactly once, and nothing that is
\* not a key path of D.
C1_TagsAreExactlyTheKeyPaths ==
    \A p \in Procs :
        (Flattened(p) /\ languageData[p].kind = "object") =>
            /\ \A path \in KeyPaths(languageData[p]) :
                 Occurrences(tagsArray[p], path) = 1
            /\ \A i \in 1..Len(tagsArray[p]) :
                 tagsArray[p][i] \in KeyPaths(languageData[p])

\* The document {a: {b: ..}, b: ..} has been flattened to a, a.b, b.
C1_Witness ==
    \E p \in Procs :
        /\ Flattened(p)
        /\ languageData[p] =
             Obj(<<Member("a", Obj(<<Member("b", Str("Send"))>>)), Member("b", Null)>>)
        /\ tagsArray[p] = << <<"a">>, <<"a", "b">>, <<"b">> >>

IsLeafTag(tags, i) == \A j \in 1..Len(tags) : ~IsProperPrefix(tags[i], tags[j])

\* C7 as stated: a key whose value is not a nested mapping (a string, a
\* number, a boolean, null or an array) yields one tag, and no tag extends
\* that tag.
C7_OnlyMappingsAreDescended ==
    \A p \in Procs :
        Flattened(p) =>
            \A i \in 1..Len(tagsArray[p]) :
                ValueAt(languageData[p], tagsArray[p][i]).kind # "object" =>
                    /\ Occurrences(tagsArray[p], tagsArray[p][i]) = 1
                    /\ IsLeafTag(tagsArray[p], i)

\* C7 amended: the flattener descends into mappings and into arrays.  A key
\* whose value is a string, a number, a boolean, null, an empty mapping or
\* an empty array yields exactly one tag that no tag extends; a key whose
\* value is an array of n elements is followed by the tags of its indices
\* '0' .. 'n-1', and a key whose value is a mapping by the tags of its keys.
C7_MappingsAndArraysAreDescended ==
    \A p \in Procs :
        Flattened(p) =>
            \A i \in 1..Len(tagsArray[p]) :
                LET tags == tagsArray[p]
                    value == ValueAt(languageData[p], tags[i])
                    childKeys ==
                        CASE value.kind = "object" ->
                               {value.members[k].key : k \in 1..Len(value.members)}
                          [] value.kind = "array" ->
                               {IndexStr(k - 1) : k \in 1..Len(value.items)}
                          [] OTHER -> {}
                IN  /\ Occurrences(tags, tags[i]) = 1
                    /\ IsLeafTag(tags, i) <=> childKeys = {}
                    /\ { tags[j] : j \in { k \in 1..Len(tags) :
                                             /\ Len(tags[k]) = Len(tags[i]) + 1
                                             /\ IsProperPrefix(tags[i], tags[k]) } }
                         = { tags[i] \o <<key>> : key \in childKeys }

\* A key whose value is an array has been flattened, and a tag extends it.
C7_Witness ==
    \E p \in Procs :
        /\ Flattened(p)
        /\ \E i, j \in 1..Len(tagsArray[p]) :
             /\ ValueAt(languageData[p], tagsArray[p][i]).kind = "array"
             /\ tagsArray[p][j] = tagsArray[p][i] \o <<"0">>

\* C8: the tags are in pre-order: every non-empty proper prefix of a tag is
\* a tag that comes before it, and the tags that extend a tag form one
\* block right after it.
C8_TagsAreInPreOrder ==
    \A p \in Procs :
        Flattened(p) =>
            LET tags == tagsArray[p]
            IN  \A i \in 1..Len(tags) :
                    /\ \A n \in 1..(Len(tags[i]) - 1) :
                         \E j \in 1..(i - 1) : tags[j] = SubSeq(tags[i], 1, n)
                    /\ \A j \in 1..Len(tags) :
                         IsProperPrefix(tags[i], tags[j]) =>
                             /\ i < j
                             /\ \A k \in (i + 1)..j : IsProperPrefix(tags[i], tags[k])

\* A document with three levels and a later sibling has been flattened.
C8_Witness ==
    \E p \in Procs :
        /\ Flattened(p)
        /\ tagsArray[p] = << <<"b">>, <<"b", "a">>, <<"b", "a", "0">> >>

\* C9: two distinct tags of a document never have the same dot-joined
\* string form, also when a key contains the character '.'.
C9_StringFormsAreDistinct ==
    \A p \in Procs :
        Flattened(p) =>
            \A i, j \in 1..Len(tagsArray[p]) :
                tagsArray[p][i] # tagsArray[p][j] =>
                    Join(tagsArray[p][i], ".") # Join(tagsArray[p][j], ".")

-----------------------------------------------------------------------------
(* Reading generated text back.                                            *)

\* The places where piece occurs in text.
Positions(text, piece) ==
    { i \in 1..(Len(text) - Len(piece) + 1) :
        SubSeq(text, i, i + Len(piece) - 1) = piece }

RECURSIVE Ascending(_)
Ascending(S) ==
    IF S = {} THEN <<>>
    ELSE LET least == CHOOSE x \in S : \A y \in S : x <= y
         IN  <<least>> \o Ascending(S \ {least})

\* The pieces of text between the occurrences of separator.
SplitOn(text, separator) ==
    LET at == Ascending(Positions(text, separator))
        n == Len(at)
    IN  [k \in 1..(n + 1) |->
           SubSeq(text,
                  IF k = 1 THEN 1 ELSE at[k - 1] + Len(separator),
                  IF k = n + 1 THEN Len(text) ELSE at[k] - 1)]

\* The single-quoted literals of text, in order.
QuotedParts(text) ==
    LET quotes == Ascending(Positions(text, "'"))
    IN  [k \in 1..(Len(quotes) \div 2) |->
           SubSeq(text, quotes[2 * k - 1] + 1, quotes[2 * k] - 1)]

RECURSIVE WithoutWhiteSpace(_)
WithoutWhiteSpace(text) ==
    IF text = "" THEN ""
    ELSE (IF SubSeq(text, 1, 1) \in {" ", "\n"} THEN "" ELSE SubSeq(text, 1, 1))
         \o WithoutWhiteSpace(SubSeq(text, 2, Len(text)))

\* What text holds outside its single-quoted literals, white space dropped.
OutsideQuotes(text) ==
    LET quotes == Ascending(Positions(text, "'"))
        m == Len(quotes) \div 2
    IN  ConcatAll([k \in 1..(m + 1) |->
                     WithoutWhiteSpace(
                         SubSeq(text,
                                IF k = 1 THEN 1 ELSE quotes[2 * k - 2] + 1,
                                IF k = m + 1 THEN Len(text) ELSE quotes[2 * k - 1] - 1))])

\* The components of a tag with '.' between them.
RECURSIVE DotPath(_)
DotPath(tag) ==
    IF Len(tag) = 1 THEN tag[1]
    ELSE DotPath(SubSeq(tag, 1, Len(tag) - 1)) \o "." \o tag[Len(tag)]

RECURSIVE SumOfLengths(_)
SumOfLengths(tag) ==
    IF tag = <<>> THEN 0 ELSE Len(Head(tag)) + SumOfLengths(Tail(tag))

\* The number of characters of `  | ['c1', 'c2', ..]`.
OneLineLength(tag) == 6 + SumOfLengths(tag) + 2 * Len(tag) + 2 * (Len(tag) - 1)

\* C4: the type of a tag is exactly two union members, in this order: the
\* components joined by '.' inside single quotes, and then, inside
\* brackets, exactly the components, each single-quoted, in the tag's order,
\* on one line or on several.
C4_TagTypeIsStringThenSequence ==
    "type" \in tagPc =>
        LET members == SplitOn(tagType, "\n  | ")
        IN  /\ Len(members) = 3
            /\ members[1] = ""
            /\ members[2] = "'" \o DotPath(tagAsArray) \o "'"
            /\ QuotedParts(members[3]) = tagAsArray
            /\ OutsideQuotes(members[3])
                 = "[" \o Repeat(",", Len(tagAsArray) - 1) \o "]"

\* The tag [a, b] has been rendered as 'a.b' and ['a', 'b'].
C4_Witness ==
    /\ "type" \in tagPc
    /\ tagAsArray = <<"a", "b">>
    /\ tagType = "\n  | 'a.b'\n  | ['a', 'b']"

\* C5: the array form is the multi-line form, one component per line,
\* exactly when its one-line rendering with the `  | ` prefix is longer than
\* 80 characters; a one-line rendering of 80 characters or fewer is
\* returned as that one line.
C5_MultiLineExactlyAboveMaxLineLength ==
    "array" \in tagPc =>
        LET lines == SplitOn(arrayRepr, "\n")
        IN  IF OneLineLength(tagAsArray) > 80
            THEN /\ Len(lines) = Len(tagAsArray) + 2
                 /\ lines[1] = "  | ["
                 /\ lines[Len(lines)] = "    ]"
                 /\ \A i \in 1..Len(tagAsArray) :
                      QuotedParts(lines[i + 1]) = <<tagAsArray[i]>>
            ELSE /\ Len(lines) = 1
                 /\ Len(arrayRepr) = OneLineLength(tagAsArray)
                 /\ QuotedParts(arrayRepr) = tagAsArray
                 /\ SubSeq(arrayRepr, 1, 5) = "  | ["

\* A tag whose one-line rendering has 81 characters has been rendered on
\* four lines.
C5_Witness ==
    /\ "array" \in tagPc
    /\ OneLineLength(tagAsArray) = 81
    /\ Len(SplitOn(arrayRepr, "\n")) = 4

\* A tag whose one-line rendering has exactly 80 characters has been
\* rendered on one line.
C5_BoundaryWitness ==
    /\ "array" \in tagPc
    /\ OneLineLength(tagAsArray) = 80
    /\ Len(arrayRepr) = 80

-----------------------------------------------------------------------------
(* The run as a whole.                                                     *)

InRun(p) == pc[p] \notin {"off", "ready", "start"}

\* The file parses, and what it parses to has no top-level `translation`.
HasNoTranslationField(contents) ==
    /\ contents \notin {NoFile, Malformed}
    /\ LET parsed == Revive(contents)
       IN  \/ parsed.kind # "object"
           \/ \A i \in 1..Len(parsed.members) : parsed.members[i].key # "translation"

\* C2: when the parsed input file has no top-level `translation` field, the
\* run ends in a fatal failure, it never reaches the write, and the output
\* file is as it was before the run.
C2_MissingTranslationIsFatal ==
    \A p \in Procs :
        (InRun(p) /\ HasNoTranslationField(files[languageFilename[p]])) =>
            /\ pc[p] \notin {"opened", "done"}
            /\ Ended(p) => pc[p] = "failed"
            /\ outFile = outBefore[p]

Unreadable(contents) == contents \in {NoFile, Malformed}

\* C3: when the input file is not found or is not JSON, the run ends in a
\* failure and the output file is as it was before the run; the output
\* file differs from what it was before the run only once the run has
\* loaded, flattened and rendered and is inside the write.
C3_UnreadableInputLeavesOutput ==
    \A p \in Procs :
        /\ (InRun(p) /\ Unreadable(files[languageFilename[p]])) =>
              /\ pc[p] = "failed"
              /\ error[p] = IF files[languageFilename[p]] = NoFile
                            THEN "ENOENT" ELSE "SyntaxError"
              /\ outFile = outBefore[p]
        /\ (pc[p] # "off" /\ outFile # outBefore[p]) => pc[p] \in {"opened", "done"}

\* A run on a file that is not JSON has failed, beside a stale output file.
C3_Witness ==
    \E p \in Procs :
        /\ pc[p] = "failed"
        /\ error[p] = "SyntaxError"
        /\ outFile = StaleText

\* C6: all runs of one behaviour on the same file name (the input files do
\* not change) leave the same text in the output file, whatever the file
\* held before each run.
C6_RunsOnTheSameInputEmitTheSameText ==
    \A n \in FileNames :
        \A i, j \in 1..Len(emitted[n]) : emitted[n][i] = emitted[n][j]

\* The script has run twice on an en_US.json that has keys; the first run
\* found a stale declaration in the output file, the second run its own.
C6_Witness ==
    /\ Len(emitted[DefaultLanguageFilename]) = 2
    /\ outFile # StaleText
    /\ outBefore[1] = emitted[DefaultLanguageFilename][1]
    /\ Len(SplitOn(outFile, "\n  | ")) > 2

Quiescent == \A p \in Procs : Ended(p)

\* The declaration a run on file `name` computes from its own input.
DeclarationOf(name) ==
    generateDeclaration(
        pushNestedKeysAsArrays(<<>>, loadLanguageJson(files[name]).value, <<>>), name)

\* C10 as stated: once both runs have ended, the output file holds exactly
\* the declaration text of the run that wrote last.
C10_LastWriterWinsWhole ==
    (Quiescent /\ writeLog # <<>>) => outFile = writeLog[Len(writeLog)].text

\* C10 amended: once both runs have ended, the output file begins with the
\* complete declaration text of the run that wrote last; after that text
\* comes nothing, or else the rest of the longer text that the other run
\* wrote before it.  Every text written is computed from the writer's own
\* input alone.
C10_LastWriterTextThenTail ==
    /\ \A i \in 1..Len(writeLog) : writeLog[i].text = DeclarationOf(writeLog[i].name)
    /\ (Quiescent /\ writeLog # <<>>) =>
          LET n == Len(writeLog)
              last == writeLog[n].text
          IN  \/ outFile = last
              \/ /\ n >= 2
                 /\ writeLog[n - 1].who # writeLog[n].who
                 /\ Len(writeLog[n - 1].text) > Len(last)
                 /\ outFile = last \o SubSeq(writeLog[n - 1].text, Len(last) + 1,
                                              Len(writeLog[n - 1].text))

\* Both runs have ended and the output file holds the last writer's text
\* followed by the rest of the other run's longer text.
C10_Witness ==
    /\ Quiescent
    /\ Len(writeLog) = 2
    /\ writeLog[1].who # writeLog[2].who
    /\ outFile # writeLog[2].text
    /\ SubSeq(outFile, 1, Len(writeLog[2].text)) = writeLog[2].text

====
